---- MODULE Spec2Model ----
(***************************************************************************)
(* State-machine model of the PointsSwap_FHE loyalty-points ledger         *)
(* (contracts/PointsSwap_FHE.sol) and of the decrypt-and-verify flow that  *)
(* the web frontend drives against it (frontend/web/src/App.tsx).          *)
(*                                                                         *)
(* Every uint32 / euint32 value is a little-endian sequence of four bytes, *)
(* so that the arithmetic keeps its 32-bit width: FHE.add, FHE.sub and     *)
(* FHE.mul wrap modulo 2^32.                                               *)
(***************************************************************************)
EXTENDS Integers, Sequences, FiniteSets, TLC

\* ------------------------------------------------------------------ bounds
\* block.timestamp ranges over 0..MaxTime.
MaxTime == 1
\* At most MaxConversions successful convertPoints per run.
MaxConversions == 1
\* At most MaxEvents events in a recorded log.
MaxEvents == 4

\* ------------------------------------------------- 32-bit word arithmetic
\* One limb is a byte; a uint32 has four of them.
Base == 256
NumLimbs == 4

\* The uint32 with value n, for 0 <= n < Base^3.
N(n) == << n % Base, (n \div Base) % Base, (n \div (Base * Base)) % Base, 0 >>

Zero32 == N(0)
\* 2^32 - 1 and 2^31.
MaxU32 == << Base - 1, Base - 1, Base - 1, Base - 1 >>
HalfU32 == << 0, 0, 0, Base \div 2 >>

RECURSIVE CarryOut(_, _, _, _)
\* The carry out of limb i when adding x + y + c0 limb by limb.
CarryOut(x, y, c0, i) ==
    IF i = 0 THEN c0
    ELSE (x[i] + y[i] + CarryOut(x, y, c0, i - 1)) \div Base

\* x + y + c0 truncated to Len(x) limbs.
AddCarry(x, y, c0) ==
    [i \in 1..Len(x) |-> (x[i] + y[i] + CarryOut(x, y, c0, i - 1)) % Base]

\* Limb-wise complement: Base^n - 1 - y.
Complement(y) == [i \in 1..Len(y) |-> Base - 1 - y[i]]

RECURSIVE ColumnSum(_, _, _, _)
\* Sum of the limb products x[j] * y[k + 1 - j] for j in 1..i.
ColumnSum(x, y, k, i) ==
    IF i = 0 THEN 0
    ELSE x[i] * y[k + 1 - i] + ColumnSum(x, y, k, i - 1)

RECURSIVE MulAcc(_, _, _)
\* Column k of the schoolbook product plus the carry of the columns below.
MulAcc(x, y, k) ==
    IF k = 0 THEN 0
    ELSE ColumnSum(x, y, k, k) + (MulAcc(x, y, k - 1) \div Base)

\* Wrapping arithmetic on words of Len(x) limbs (modulo Base^Len(x)).
WrapAdd(x, y) == AddCarry(x, y, 0)
WrapSub(x, y) == AddCarry(x, Complement(y), 1)
WrapMul(x, y) == [k \in 1..Len(x) |-> MulAcc(x, y, k) % Base]

\* --------------------------------------------- confidential values (FHE)
\* An euint32 handle: whether it is initialized, the plaintext it encrypts,
\* and its access-control flags (allowThis, makePubliclyDecryptable).
Handle(v) == [init |-> TRUE, val |-> v, allowedThis |-> FALSE, public |-> FALSE]

\* The zero handle of a storage slot that was never written.
NoHandle == [init |-> FALSE, val |-> Zero32, allowedThis |-> FALSE, public |-> FALSE]

\* An external input is a ciphertext of `val` with an input proof that
\* validates or not.
ExternalInput(v, ok) == [val |-> v, proofOk |-> ok]

\* FHE.fromExternal: the verified handle; an input whose proof does not
\* validate yields no usable handle.
FHE_fromExternal(input) == IF input.proofOk THEN Handle(input.val) ELSE NoHandle

FHE_isInitialized(h) == h.init

\* FHE.fromU32: the plaintext lifted into the confidential domain.
FHE_fromU32(amount) == Handle(amount)

\* An uninitialized operand counts as an encryption of zero.
FHE_add(a, b) == Handle(WrapAdd(a.val, b.val))
FHE_sub(a, b) == Handle(WrapSub(a.val, b.val))
FHE_mul(a, b) == Handle(WrapMul(a.val, b.val))

FHE_allowThis(h) == [h EXCEPT !.allowedThis = TRUE]
FHE_makePubliclyDecryptable(h) == [h EXCEPT !.public = TRUE]

\* ------------------------------------------------------------ identities
Users == {"u1", "u2"}
ZeroAddress == "0x0"

\* Brand identifiers offered to addSupportedBrand and convertPoints.
BrandIds == {"A", "B", "A-B"}

\* string(abi.encodePacked(fromBrand, "-", toBrand))
PairKey(fromBrand, toBrand) == fromBrand \o "-" \o toBrand

\* Every string the mappings are read or written at.
AllStrings == BrandIds \cup {PairKey(f, t) : f \in BrandIds, t \in BrandIds}

\* ---------------------------------------------------------- revert reasons
Ok == "ok"
ErrNotAuthorized == "Not authorized"
ErrAccountExists == "Account already exists"
ErrInvalidInput == "Invalid encrypted input"
ErrBrandExists == "Brand already supported"
ErrPairUnsupported == "Brand pair not supported"
ErrInvalidRate == "Invalid encrypted rate"
ErrAccountInactive == "Account inactive"
ErrUnsupportedBrand == "Unsupported brand"
ErrInvalidAmount == "Invalid amount"
ErrRateNotSet == "Exchange rate not set"
ErrAccountNotActive == "Account not active"
ErrInvalidAddress == "Invalid address"
ErrAlreadyVerified == "Data already verified"
ErrInvalidDecryptionProof == "Invalid decryption proof"

\* ------------------------------------------------------------------ state
VARIABLES
    accounts,        \* mapping(address => LoyaltyAccount)
    exchangeRates,   \* mapping(string => ExchangeRate)
    supportedBrands, \* mapping(string => bool)
    owner,           \* address
    brandList,       \* string[]
    now,             \* block.timestamp
    conversions,     \* number of successful convertPoints so far
    last,            \* the last transaction: operation, sender, arguments, outcome
    eventLog,        \* the event log of the ledger
    records,         \* recordId => verification record (isVerified, decryptedValue)
    fe               \* caller => the state of its frontend's decryptData call

vars == << accounts, exchangeRates, supportedBrands, owner, brandList, now,
           conversions, eventLog, last, records, fe >>

\* The all-zero structs a mapping returns for a key never written.
NoAccount ==
    [encryptedPoints |-> NoHandle, publicPoints |-> Zero32, lastUpdated |-> 0,
     isActive |-> FALSE]
NoRate == [encryptedRate |-> NoHandle, publicRate |-> Zero32, lastUpdated |-> 0]

\* A record no verification has reached, and a decryption proof: the handle
\* and the cleartext it binds, and whether the trusted verifier accepts it.
NoRecord == [isVerified |-> FALSE, decryptedValue |-> Zero32]
Proof(h, v, ok) == [handle |-> h, clear |-> v, valid |-> ok]
NoProof == Proof(NoHandle, Zero32, FALSE)

\* What decryptData returns: null, or a number.
Null == << >>
Number(v) == << v >>

\* A wallet with no account selected: `address` is undefined.
NoAddress == ""

\* A frontend with no decryptData call in flight, whose last call returned ret.
\* txErr is the outcome of the verifyDecryption transaction the call in flight
\* has sent.
Idle(ret) ==
    [pc |-> "idle", isDecrypting |-> FALSE, businessId |-> ZeroAddress,
     encryptedValueHandle |-> NoHandle, proof |-> NoProof, txErr |-> Ok,
     ret |-> ret]

\* The event log: the events emitted so far, in order. A run that makes no
\* statement about the log does not record it: the log is then the one value
\* Unrecorded, which stands for any log and stays itself under every append.
Unrecorded == [recorded |-> FALSE, events |-> << >>]
EmptyLog == [recorded |-> TRUE, events |-> << >>]

\* emit: the event is appended to the log.
Emit(event) ==
    /\ eventLog.recorded => Len(eventLog.events) < MaxEvents
    /\ eventLog' = IF eventLog.recorded
                   THEN [eventLog EXCEPT !.events = Append(@, event)]
                   ELSE eventLog

Tx(op, sender, args, err) == [op |-> op, sender |-> sender, args |-> args, err |-> err]

\* A reverted transaction: the ledger is as before, only the outcome is seen.
Revert(op, sender, args, err) ==
    /\ last' = Tx(op, sender, args, err)
    /\ UNCHANGED << accounts, exchangeRates, supportedBrands, owner, brandList,
                    now, conversions, eventLog, records, fe >>

\* constructor: owner = msg.sender.
Deployed ==
    /\ accounts = [u \in Users |-> NoAccount]
    /\ exchangeRates = [s \in AllStrings |-> NoRate]
    /\ supportedBrands = [s \in AllStrings |-> FALSE]
    /\ owner \in Users
    /\ brandList = << >>
    /\ now = 0
    /\ conversions = 0
    /\ last = Tx("constructor", owner, << >>, Ok)
    /\ records = [u \in Users |-> NoRecord]
    /\ fe = [c \in Users |-> Idle(Null)]

\* The state after construction, the log not recorded, and with the log
\* recorded from the start.
Init == Deployed /\ eventLog = Unrecorded
InitEvents == Deployed /\ eventLog = EmptyLog

\* A later block: block.timestamp advances.
Tick ==
    /\ now < MaxTime
    /\ now' = now + 1
    /\ UNCHANGED << accounts, exchangeRates, supportedBrands, owner, brandList,
                    conversions, eventLog, last, records, fe >>

\* ------------------------------------------------------------ operations
\* Mutant of CreateAccountError: the input proof is not checked.
CreateAccountErrorNoProofCheck(sender, input) ==
    IF accounts[sender].publicPoints # Zero32 THEN ErrAccountExists ELSE Ok

CreateAccountError(sender, input) ==
    IF accounts[sender].publicPoints # Zero32 THEN ErrAccountExists
    ELSE IF ~FHE_isInitialized(FHE_fromExternal(input)) THEN ErrInvalidInput
    ELSE Ok

CreatedAccount(input, publicPoints) ==
    [encryptedPoints |->
         FHE_makePubliclyDecryptable(FHE_allowThis(FHE_fromExternal(input))),
     publicPoints |-> publicPoints,
     lastUpdated |-> now,
     isActive |-> TRUE]

\* Mutant of CreateAccount: the emit is missing.
CreateAccountNoEvent(sender, input, publicPoints) ==
    LET err == CreateAccountError(sender, input)
        args == << input, publicPoints >> IN
    IF err # Ok THEN Revert("createAccount", sender, args, err)
    ELSE /\ accounts' = [accounts EXCEPT ![sender] = CreatedAccount(input, publicPoints)]
         /\ last' = Tx("createAccount", sender, args, Ok)
         /\ UNCHANGED << exchangeRates, supportedBrands, owner, brandList, now,
                         conversions, eventLog, records, fe >>

CreateAccount(sender, input, publicPoints) ==
    LET err == CreateAccountError(sender, input)
        args == << input, publicPoints >> IN
    IF err # Ok THEN Revert("createAccount", sender, args, err)
    ELSE /\ accounts' = [accounts EXCEPT ![sender] = CreatedAccount(input, publicPoints)]
         /\ Emit(<< "AccountCreated", sender, publicPoints >>)
         /\ last' = Tx("createAccount", sender, args, Ok)
         /\ UNCHANGED << exchangeRates, supportedBrands, owner, brandList, now,
                         conversions, records, fe >>

\* Mutant of AddSupportedBrandError: the onlyOwner modifier is missing.
AddSupportedBrandErrorNoOwnerCheck(sender, brandId) ==
    IF supportedBrands[brandId] THEN ErrBrandExists ELSE Ok

\* Mutant of AddSupportedBrandError: a brand already registered is accepted.
AddSupportedBrandErrorNoDuplicateCheck(sender, brandId) ==
    IF sender # owner THEN ErrNotAuthorized ELSE Ok

AddSupportedBrandError(sender, brandId) ==
    IF sender # owner THEN ErrNotAuthorized
    ELSE IF supportedBrands[brandId] THEN ErrBrandExists
    ELSE Ok

AddSupportedBrand(sender, brandId) ==
    LET err == AddSupportedBrandError(sender, brandId)
        args == << brandId >> IN
    IF err # Ok THEN Revert("addSupportedBrand", sender, args, err)
    ELSE /\ supportedBrands' = [supportedBrands EXCEPT ![brandId] = TRUE]
         /\ brandList' = Append(brandList, brandId)
         /\ last' = Tx("addSupportedBrand", sender, args, Ok)
         /\ UNCHANGED << accounts, exchangeRates, owner, now, conversions, eventLog, records, fe >>

SetExchangeRateError(sender, brandPair, input) ==
    IF sender # owner THEN ErrNotAuthorized
    ELSE IF ~supportedBrands[brandPair] THEN ErrPairUnsupported
    ELSE IF ~FHE_isInitialized(FHE_fromExternal(input)) THEN ErrInvalidRate
    ELSE Ok

StoredRate(input, publicRate) ==
    [encryptedRate |->
         FHE_makePubliclyDecryptable(FHE_allowThis(FHE_fromExternal(input))),
     publicRate |-> publicRate,
     lastUpdated |-> now]

SetExchangeRate(sender, brandPair, input, publicRate) ==
    LET err == SetExchangeRateError(sender, brandPair, input)
        args == << brandPair, input, publicRate >> IN
    IF err # Ok THEN Revert("setExchangeRate", sender, args, err)
    ELSE /\ exchangeRates' = [exchangeRates EXCEPT ![brandPair] = StoredRate(input, publicRate)]
         /\ Emit(<< "ExchangeRateUpdated", brandPair, publicRate >>)
         /\ last' = Tx("setExchangeRate", sender, args, Ok)
         /\ UNCHANGED << accounts, supportedBrands, owner, brandList, now,
                         conversions, records, fe >>

ErrAccountNotFound == "Account not found"

\* Mutant of getAccountBalance: any account that was created is found.
getAccountBalanceOfCreated(user) ==
    IF ~FHE_isInitialized(accounts[user].encryptedPoints)
    THEN [err |-> ErrAccountNotFound, encryptedPoints |-> NoHandle, publicPoints |-> Zero32]
    ELSE [err |-> Ok,
          encryptedPoints |-> accounts[user].encryptedPoints,
          publicPoints |-> accounts[user].publicPoints]

\* getAccountBalance(user), a view: reverts unless the account is active,
\* else returns the confidential balance and its mirror.
getAccountBalance(user) ==
    IF ~accounts[user].isActive
    THEN [err |-> ErrAccountNotFound, encryptedPoints |-> NoHandle, publicPoints |-> Zero32]
    ELSE [err |-> Ok,
          encryptedPoints |-> accounts[user].encryptedPoints,
          publicPoints |-> accounts[user].publicPoints]

ErrRateNotFound == "Rate not found"

\* Mutant of getExchangeRate: the rate is found once a ciphertext is stored.
getExchangeRateByHandle(brandPair) ==
    IF ~FHE_isInitialized(exchangeRates[brandPair].encryptedRate)
    THEN [err |-> ErrRateNotFound, encryptedRate |-> NoHandle, publicRate |-> Zero32]
    ELSE [err |-> Ok,
          encryptedRate |-> exchangeRates[brandPair].encryptedRate,
          publicRate |-> exchangeRates[brandPair].publicRate]

\* getExchangeRate(brandPair): reverts while the mirror of the entry is zero,
\* else returns the confidential rate and its mirror.
getExchangeRate(brandPair) ==
    IF exchangeRates[brandPair].publicRate = Zero32
    THEN [err |-> ErrRateNotFound, encryptedRate |-> NoHandle, publicRate |-> Zero32]
    ELSE [err |-> Ok,
          encryptedRate |-> exchangeRates[brandPair].encryptedRate,
          publicRate |-> exchangeRates[brandPair].publicRate]

\* Mutant of ConvertPointsError: the amount > 0 check is missing.
ConvertPointsErrorNoAmountCheck(sender, fromBrand, toBrand, amount) ==
    IF ~accounts[sender].isActive THEN ErrAccountInactive
    ELSE IF ~(supportedBrands[fromBrand] /\ supportedBrands[toBrand]) THEN ErrUnsupportedBrand
    ELSE IF exchangeRates[PairKey(fromBrand, toBrand)].publicRate = Zero32 THEN ErrRateNotSet
    ELSE Ok

\* Mutant of ConvertPointsError: a conversion on a balance that decrypts to
\* zero is refused.
ConvertPointsErrorOnEmptyBalance(sender, fromBrand, toBrand, amount) ==
    IF ~accounts[sender].isActive THEN ErrAccountInactive
    ELSE IF ~(supportedBrands[fromBrand] /\ supportedBrands[toBrand]) THEN ErrUnsupportedBrand
    ELSE IF amount = Zero32 THEN ErrInvalidAmount
    ELSE IF exchangeRates[PairKey(fromBrand, toBrand)].publicRate = Zero32 THEN ErrRateNotSet
    ELSE IF accounts[sender].encryptedPoints.val = Zero32 THEN ErrInvalidAmount
    ELSE Ok

\* Mutant of ConvertPointsError: the amount is checked before the brands.
ConvertPointsErrorAmountFirst(sender, fromBrand, toBrand, amount) ==
    IF ~accounts[sender].isActive THEN ErrAccountInactive
    ELSE IF amount = Zero32 THEN ErrInvalidAmount
    ELSE IF ~(supportedBrands[fromBrand] /\ supportedBrands[toBrand]) THEN ErrUnsupportedBrand
    ELSE IF exchangeRates[PairKey(fromBrand, toBrand)].publicRate = Zero32 THEN ErrRateNotSet
    ELSE Ok

\* Mutant of ConvertPointsError: an amount above the balance is refused (the
\* subtraction balance - amount would borrow).
ConvertPointsErrorInsufficientBalance(sender, fromBrand, toBrand, amount) ==
    IF ~accounts[sender].isActive THEN ErrAccountInactive
    ELSE IF ~(supportedBrands[fromBrand] /\ supportedBrands[toBrand]) THEN ErrUnsupportedBrand
    ELSE IF amount = Zero32 THEN ErrInvalidAmount
    ELSE IF exchangeRates[PairKey(fromBrand, toBrand)].publicRate = Zero32 THEN ErrRateNotSet
    ELSE IF CarryOut(accounts[sender].encryptedPoints.val, Complement(amount), 1, NumLimbs) = 0
         THEN ErrInvalidAmount
    ELSE Ok

ConvertPointsError(sender, fromBrand, toBrand, amount) ==
    IF ~accounts[sender].isActive THEN ErrAccountInactive
    ELSE IF ~(supportedBrands[fromBrand] /\ supportedBrands[toBrand]) THEN ErrUnsupportedBrand
    ELSE IF amount = Zero32 THEN ErrInvalidAmount
    ELSE IF exchangeRates[PairKey(fromBrand, toBrand)].publicRate = Zero32 THEN ErrRateNotSet
    ELSE Ok

\* Mutant of ConvertedBalance: the nominal amount is not debited.
ConvertedBalanceNoDebit(balance, rate, amount) ==
    FHE_add(balance, FHE_mul(FHE_fromU32(amount), rate))

\* The balance handle convertPoints leaves in the account.
ConvertedBalance(balance, rate, amount) ==
    LET convertedAmount == FHE_mul(FHE_fromU32(amount), rate)
        debited == FHE_sub(balance, FHE_fromU32(amount))
        newTargetBalance == convertedAmount
    IN  FHE_add(debited, newTargetBalance)

\* Mutant of ConvertPoints: the plaintext mirror follows the conversion.
ConvertPointsSyncingMirror(sender, fromBrand, toBrand, amount) ==
    LET err == ConvertPointsError(sender, fromBrand, toBrand, amount)
        args == << fromBrand, toBrand, amount >>
        rate == exchangeRates[PairKey(fromBrand, toBrand)].encryptedRate IN
    IF err # Ok THEN Revert("convertPoints", sender, args, err)
    ELSE /\ conversions < MaxConversions
         /\ conversions' = conversions + 1
         /\ accounts' = [accounts EXCEPT
                ![sender].encryptedPoints =
                    ConvertedBalance(accounts[sender].encryptedPoints, rate, amount),
                ![sender].publicPoints =
                    WrapAdd(WrapSub(accounts[sender].publicPoints, amount),
                            WrapMul(amount, exchangeRates[PairKey(fromBrand, toBrand)].publicRate)),
                ![sender].lastUpdated = now]
         /\ Emit(<< "PointsConverted", sender, fromBrand, toBrand, amount >>)
         /\ last' = Tx("convertPoints", sender, args, Ok)
         /\ UNCHANGED << exchangeRates, supportedBrands, owner, brandList, now, records, fe >>

ConvertPoints(sender, fromBrand, toBrand, amount) ==
    LET err == ConvertPointsError(sender, fromBrand, toBrand, amount)
        args == << fromBrand, toBrand, amount >>
        rate == exchangeRates[PairKey(fromBrand, toBrand)].encryptedRate IN
    IF err # Ok THEN Revert("convertPoints", sender, args, err)
    ELSE /\ conversions < MaxConversions
         /\ conversions' = conversions + 1
         /\ accounts' = [accounts EXCEPT
                ![sender].encryptedPoints =
                    ConvertedBalance(accounts[sender].encryptedPoints, rate, amount),
                ![sender].lastUpdated = now]
         /\ Emit(<< "PointsConverted", sender, fromBrand, toBrand, amount >>)
         /\ last' = Tx("convertPoints", sender, args, Ok)
         /\ UNCHANGED << exchangeRates, supportedBrands, owner, brandList, now, records, fe >>

\* Mutant of DeactivateAccount: every account is deactivated, not the caller's alone.
DeactivateEveryAccount(sender) ==
    IF ~accounts[sender].isActive
    THEN Revert("deactivateAccount", sender, << >>, ErrAccountNotActive)
    ELSE /\ accounts' = [u \in Users |-> [accounts[u] EXCEPT !.isActive = FALSE]]
         /\ last' = Tx("deactivateAccount", sender, << >>, Ok)
         /\ UNCHANGED << exchangeRates, supportedBrands, owner, brandList, now,
                         conversions, eventLog, records, fe >>

\* Mutant of DeactivateAccount: the confidential balance is dropped too.
DeactivateAccountDroppingBalance(sender) ==
    IF ~accounts[sender].isActive
    THEN Revert("deactivateAccount", sender, << >>, ErrAccountNotActive)
    ELSE /\ accounts' = [accounts EXCEPT ![sender].isActive = FALSE,
                                         ![sender].encryptedPoints = NoHandle]
         /\ last' = Tx("deactivateAccount", sender, << >>, Ok)
         /\ UNCHANGED << exchangeRates, supportedBrands, owner, brandList, now,
                         conversions, eventLog, records, fe >>

DeactivateAccount(sender) ==
    IF ~accounts[sender].isActive
    THEN Revert("deactivateAccount", sender, << >>, ErrAccountNotActive)
    ELSE /\ accounts' = [accounts EXCEPT ![sender].isActive = FALSE]
         /\ last' = Tx("deactivateAccount", sender, << >>, Ok)
         /\ UNCHANGED << exchangeRates, supportedBrands, owner, brandList, now,
                         conversions, eventLog, records, fe >>

UpdatePublicPoints(sender, newPoints) ==
    IF ~accounts[sender].isActive
    THEN Revert("updatePublicPoints", sender, << newPoints >>, ErrAccountNotActive)
    ELSE /\ accounts' = [accounts EXCEPT ![sender].publicPoints = newPoints,
                                         ![sender].lastUpdated = now]
         /\ last' = Tx("updatePublicPoints", sender, << newPoints >>, Ok)
         /\ UNCHANGED << exchangeRates, supportedBrands, owner, brandList, now,
                         conversions, eventLog, records, fe >>

\* Mutant of TransferOwnershipError: the onlyOwner modifier is missing.
TransferOwnershipErrorNoOwnerCheck(sender, newOwner) ==
    IF newOwner = ZeroAddress THEN ErrInvalidAddress ELSE Ok

\* Mutant of TransferOwnershipError: the null address is accepted.
TransferOwnershipErrorNoAddressCheck(sender, newOwner) ==
    IF sender # owner THEN ErrNotAuthorized ELSE Ok

TransferOwnershipError(sender, newOwner) ==
    IF sender # owner THEN ErrNotAuthorized
    ELSE IF newOwner = ZeroAddress THEN ErrInvalidAddress
    ELSE Ok

TransferOwnership(sender, newOwner) ==
    LET err == TransferOwnershipError(sender, newOwner) IN
    IF err # Ok THEN Revert("transferOwnership", sender, << newOwner >>, err)
    ELSE /\ owner' = newOwner
         /\ last' = Tx("transferOwnership", sender, << newOwner >>, Ok)
         /\ UNCHANGED << accounts, exchangeRates, supportedBrands, brandList, now,
                         conversions, eventLog, records, fe >>

\* The event a transaction emits: AccountCreated, ExchangeRateUpdated or
\* PointsConverted at the end of a successful call, nothing otherwise.
NoEvent == << >>
Event(tx) ==
    IF tx.err # Ok THEN NoEvent
    ELSE IF tx.op = "createAccount"
         THEN << "AccountCreated", tx.sender, tx.args[2] >>
    ELSE IF tx.op = "setExchangeRate"
         THEN << "ExchangeRateUpdated", tx.args[1], tx.args[3] >>
    ELSE IF tx.op = "convertPoints"
         THEN << "PointsConverted", tx.sender, tx.args[1], tx.args[2], tx.args[3] >>
    ELSE NoEvent

\* ------------------------------------------------- decrypt and verify
\* The verification record of an account, and the handle a decryption of it
\* is requested for: the account's current confidential balance.
getBusinessData(businessId) == records[businessId]
getEncryptedValue(businessId) == accounts[businessId].encryptedPoints

\* The cleartext a decryption of handle h yields.
Decrypt(h) == h.val

\* The external decryption of handle h answers with the cleartext and a proof
\* that validates, or with one of `forged` and a proof that does not.
PublicDecrypt(h, forged) ==
    {Proof(h, Decrypt(h), TRUE)} \cup {Proof(h, v, FALSE) : v \in forged}

\* The trusted verifier: the proof validates and binds this handle to this
\* cleartext.
CheckSignatures(h, clearValue, proof) ==
    proof.valid /\ proof.handle = h /\ proof.clear = clearValue

\* Mutant of VerifyDecryption: no short-circuit on a verified record, and
\* the record stores the outcome of the proof check.
VerifyDecryptionStoringOutcome(businessId, clearValue, proof, reported) ==
    IF ~CheckSignatures(getEncryptedValue(businessId), clearValue, proof)
    THEN [err |-> ErrInvalidDecryptionProof, record |-> NoRecord]
    ELSE [err |-> Ok,
          record |-> [isVerified |-> TRUE, decryptedValue |-> clearValue]]

\* Mutant of VerifyDecryption: any validating proof is accepted and the
\* cleartext stored is that of the balance at the time of the call.
VerifyDecryptionOfCurrentBalance(businessId, clearValue, proof, reported) ==
    IF records[businessId].isVerified
    THEN [err |-> IF reported THEN ErrAlreadyVerified ELSE Ok,
          record |-> records[businessId]]
    ELSE IF ~proof.valid
         THEN [err |-> ErrInvalidDecryptionProof, record |-> records[businessId]]
         ELSE [err |-> Ok,
               record |-> [isVerified |-> TRUE,
                           decryptedValue |-> Decrypt(getEncryptedValue(businessId))]]

\* verifyDecryption(recordId, cleartext, proof) on the ledger: its outcome
\* and the record it leaves. A verified record short-circuits, whatever the
\* proof: the call is a no-op, reported as "Data already verified" or not.
VerifyDecryption(businessId, clearValue, proof, reported) ==
    IF records[businessId].isVerified
    THEN [err |-> IF reported THEN ErrAlreadyVerified ELSE Ok,
          record |-> records[businessId]]
    ELSE IF ~CheckSignatures(getEncryptedValue(businessId), clearValue, proof)
         THEN [err |-> ErrInvalidDecryptionProof, record |-> records[businessId]]
         ELSE [err |-> Ok,
               record |-> [isVerified |-> TRUE, decryptedValue |-> clearValue]]

\* Mutant of Finished: the in-progress flag is not cleared.
FinishedStillDecrypting(f, ret) == [Idle(ret) EXCEPT !.isDecrypting = f.isDecrypting]

\* decryptData returns ret: the finally block clears the in-progress flag.
Finished(f, ret) == Idle(ret)

\* What decryptData returns once verifyDecryption ended with err: the
\* cleartext of the decryption result, or null from the catch block.
ReturnedAfterVerify(clearValue, err) == IF err = Ok THEN Number(clearValue) ELSE Null

\* decryptData(businessId), up to the first await. Without a connected wallet
\* and an address the call returns null and the in-progress flag is not
\* touched; otherwise the flag is raised and the read-only contract is asked
\* for.
DecryptStart(c, businessId, isConnected, address) ==
    /\ fe[c].pc = "idle"
    /\ ~fe[c].isDecrypting
    /\ fe' = [fe EXCEPT ![c] =
           IF ~isConnected \/ address = NoAddress
           THEN [fe[c] EXCEPT !.ret = Null]
           ELSE [fe[c] EXCEPT !.pc = "getBusinessData",
                              !.isDecrypting = TRUE,
                              !.businessId = businessId]]
    /\ UNCHANGED << accounts, exchangeRates, supportedBrands, owner, brandList,
                    now, conversions, eventLog, last, records >>

\* Mutant of DecryptReadRecord: the record's isVerified flag is not looked at.
DecryptReadRecordNoFastPath(c, contractRead, thrown) ==
    /\ fe[c].pc = "getBusinessData"
    /\ fe' = [fe EXCEPT ![c] =
           IF ~contractRead \/ thrown THEN Finished(fe[c], Null)
           ELSE [fe[c] EXCEPT !.pc = "getEncryptedValue"]]
    /\ UNCHANGED << accounts, exchangeRates, supportedBrands, owner, brandList,
                    now, conversions, eventLog, last, records >>

\* The read-only contract is obtained and the record is read, as it is at
\* the time of the read. Without a contract, or when the read throws, the
\* call returns null; a record already verified is answered from its stored
\* value.
DecryptReadRecord(c, contractRead, thrown) ==
    /\ fe[c].pc = "getBusinessData"
    /\ fe' = [fe EXCEPT ![c] =
           IF ~contractRead \/ thrown THEN Finished(fe[c], Null)
           ELSE IF getBusinessData(fe[c].businessId).isVerified
                THEN Finished(fe[c],
                              Number(getBusinessData(fe[c].businessId).decryptedValue))
                ELSE [fe[c] EXCEPT !.pc = "getEncryptedValue"]]
    /\ UNCHANGED << accounts, exchangeRates, supportedBrands, owner, brandList,
                    now, conversions, eventLog, last, records >>

\* The signer contract is obtained and the handle to decrypt is read.
DecryptReadHandle(c, contractWrite) ==
    /\ fe[c].pc = "getEncryptedValue"
    /\ fe' = [fe EXCEPT ![c] =
           IF ~contractWrite THEN Finished(fe[c], Null)
           ELSE [fe[c] EXCEPT !.pc = "publicDecrypt",
                              !.encryptedValueHandle = getEncryptedValue(fe[c].businessId)]]
    /\ UNCHANGED << accounts, exchangeRates, supportedBrands, owner, brandList,
                    now, conversions, eventLog, last, records >>

\* The external decryption answers, or fails: there is nothing to decrypt
\* behind a handle that was never initialized, and a handle that was not
\* made publicly decryptable is refused.
DecryptExternal(c, answered, proof) ==
    /\ fe[c].pc = "publicDecrypt"
    /\ fe' = [fe EXCEPT ![c] =
           IF \/ ~answered
              \/ ~FHE_isInitialized(fe[c].encryptedValueHandle)
              \/ ~fe[c].encryptedValueHandle.public
           THEN Finished(fe[c], Null)
           ELSE [fe[c] EXCEPT !.pc = "verifyDecryption", !.proof = proof]]
    /\ UNCHANGED << accounts, exchangeRates, supportedBrands, owner, brandList,
                    now, conversions, eventLog, last, records >>

\* The event of a verifyDecryption that found the record `record`: the
\* verification that makes the record Verified is logged with the record's
\* identifier and the cleartext.
DecryptionVerified(tx, record) ==
    IF tx.err = Ok /\ ~record.isVerified
    THEN << "DecryptionVerified", tx.args[1], tx.args[2].clear >>
    ELSE NoEvent

\* The cleartext and the proof are submitted to verifyDecryption and the
\* transaction is processed. decryptData is still in flight: on success and
\* on "Data already verified" it goes on to reload the list, on any other
\* error to the catch block.
DecryptVerify(c, reported) ==
    LET f == fe[c]
        tx == VerifyDecryption(f.businessId, f.proof.clear, f.proof, reported)
    IN  /\ f.pc = "verifyDecryption"
        /\ records' = [records EXCEPT ![f.businessId] = tx.record]
        /\ last' = Tx("verifyDecryption", c, << f.businessId, f.proof >>, tx.err)
        /\ IF DecryptionVerified(last', records[f.businessId]) = NoEvent
           THEN UNCHANGED eventLog
           ELSE Emit(DecryptionVerified(last', records[f.businessId]))
        /\ fe' = [fe EXCEPT ![c] =
               [f EXCEPT !.pc = IF tx.err \in {Ok, ErrAlreadyVerified}
                                THEN "loadData" ELSE "catch",
                         !.txErr = tx.err]]
        /\ UNCHANGED << accounts, exchangeRates, supportedBrands, owner, brandList,
                        now, conversions >>

\* The list is reloaded (loadData handles its own errors) and decryptData
\* returns: the cleartext of the decryption result after a successful
\* transaction, null otherwise.
DecryptReturn(c) ==
    /\ fe[c].pc \in {"loadData", "catch"}
    /\ fe' = [fe EXCEPT ![c] =
           Finished(fe[c], ReturnedAfterVerify(fe[c].proof.clear, fe[c].txErr))]
    /\ UNCHANGED << accounts, exchangeRates, supportedBrands, owner, brandList,
                    now, conversions, eventLog, last, records >>

\* ---------------------------------------------------------- input sets
\* Plaintexts of the confidential inputs, and the plaintext mirrors.
PointsValues == {N(100)}
MirrorValues == {Zero32, N(100)}
RateValues == {N(2)}
RateMirrors == {Zero32, N(2)}
Amounts == {Zero32, N(50)}

\* Confidential inputs: each plaintext with a validating proof, and one
\* input whose proof does not validate.
Inputs(values) ==
    {ExternalInput(v, TRUE) : v \in values}
        \cup {ExternalInput(CHOOSE v \in values : TRUE, FALSE)}

\* The identities that open an account; every user calls every operation.
Holders == {"u1"}

\* The pair strings offered to setExchangeRate.
PairInputs == {PairKey("A", "B")}

\* ------------------------------------------------------- specifications
\* The ledger: every operation of the contract, in any order.
Next ==
    \/ Tick
    \/ \E s \in Holders, i \in Inputs(PointsValues), m \in MirrorValues :
           CreateAccount(s, i, m)
    \/ \E s \in Users, b \in BrandIds : AddSupportedBrand(s, b)
    \/ \E s \in Users, p \in PairInputs, i \in Inputs(RateValues), m \in RateMirrors :
           SetExchangeRate(s, p, i, m)
    \/ \E s \in Users, a \in Amounts : ConvertPoints(s, "A", "B", a)
    \/ \E s \in Users : DeactivateAccount(s)
    \/ \E s \in Users, m \in MirrorValues : UpdatePublicPoints(s, m)
    \/ \E s \in Users, n \in Users \cup {ZeroAddress} : TransferOwnership(s, n)

Spec == Init /\ [][Next]_vars

\* The arithmetic of convertPoints: the owner registers the brands and sets
\* the rate, one holder opens an account and converts, over confidential
\* values that make the subtraction, the multiplication and the addition wrap.
ArithPoints == {Zero32, N(100), MaxU32}
ArithRates == {Zero32, N(2), HalfU32, MaxU32}
ArithAmounts == {N(50), N(150), MaxU32}

NextArith ==
    \/ \E b \in BrandIds : AddSupportedBrand(owner, b)
    \/ \E v \in ArithRates :
           SetExchangeRate(owner, PairKey("A", "B"), ExternalInput(v, TRUE), N(2))
    \/ \E s \in Holders, v \in ArithPoints :
           CreateAccount(s, ExternalInput(v, TRUE), N(100))
    \/ \E s \in Holders, a \in ArithAmounts : ConvertPoints(s, "A", "B", a)

SpecArith == Init /\ [][NextArith]_vars

\* Decrypt and verify: the ledger with one holder, a single rate and a mirror
\* that stays at 100, and the frontends of both users decrypting the holder's
\* balance, each decryptData as the steps between its awaits, in any
\* interleaving.
ForgedValues == {N(7)}

NextDecrypt ==
    \/ \E b \in BrandIds : AddSupportedBrand(owner, b)
    \/ SetExchangeRate(owner, PairKey("A", "B"), ExternalInput(N(2), TRUE), N(2))
    \/ \E s \in Holders : CreateAccount(s, ExternalInput(N(100), TRUE), N(100))
    \/ \E s \in Holders : ConvertPoints(s, "A", "B", N(50))
    \/ \E s \in Holders : DeactivateAccount(s)
    \/ \E s \in Holders : UpdatePublicPoints(s, N(100))
    \/ \E c \in Users, id \in Holders, isConnected \in BOOLEAN :
           \E address \in {NoAddress, c} : DecryptStart(c, id, isConnected, address)
    \/ \E c \in Users, contractRead \in BOOLEAN, thrown \in BOOLEAN :
           DecryptReadRecord(c, contractRead, thrown)
    \/ \E c \in Users, contractWrite \in BOOLEAN : DecryptReadHandle(c, contractWrite)
    \/ \E c \in Users, answered \in BOOLEAN :
           \E proof \in PublicDecrypt(fe[c].encryptedValueHandle, ForgedValues) :
               DecryptExternal(c, answered, proof)
    \/ \E c \in Users, reported \in BOOLEAN : DecryptVerify(c, reported)
    \/ \E c \in Users : DecryptReturn(c)

SpecDecrypt == Init /\ [][NextDecrypt]_vars

\* The same steps with the event log recorded.
SpecEvents == InitEvents /\ [][NextDecrypt]_vars

\* The accounts of two holders side by side: both users open, convert on,
\* update and deactivate an account, and both call the owner-gated functions.
NextAccounts ==
    \/ Tick
    \/ \E s \in Users, m \in MirrorValues :
           CreateAccount(s, ExternalInput(N(100), TRUE), m)
    \/ \E s \in Users, b \in BrandIds : AddSupportedBrand(s, b)
    \/ \E s \in Users : SetExchangeRate(s, PairKey("A", "B"), ExternalInput(N(2), TRUE), N(2))
    \/ \E s \in Users : ConvertPoints(s, "A", "B", N(50))
    \/ \E s \in Users : DeactivateAccount(s)
    \/ \E s \in Users, m \in MirrorValues : UpdatePublicPoints(s, m)
    \/ \E s \in Users, n \in Users : TransferOwnership(s, n)

SpecAccounts == Init /\ [][NextAccounts]_vars

\* The rate table under brand identifiers that contain the separator: the
\* pairs ("A-B", "A") and ("A", "B-A") are both stored at the key "A-B-A".
SeparatorBrandIds == {"A", "A-B", "B-A", "A-B-A"}
SeparatorPairInputs == {PairKey("A-B", "A"), PairKey("A", "B")}
SeparatorRates == {N(2), N(3)}

NextRates ==
    \/ Tick
    \/ \E s \in Users, b \in SeparatorBrandIds : AddSupportedBrand(s, b)
    \/ \E s \in Users, p \in SeparatorPairInputs, v \in SeparatorRates :
           SetExchangeRate(s, p, ExternalInput(v, TRUE), v)
    \/ \E s \in Holders : CreateAccount(s, ExternalInput(N(100), TRUE), N(100))
    \/ \E s \in Holders : ConvertPoints(s, "A", "B-A", N(50))

SpecRates == Init /\ [][NextRates]_vars

\* The ledger over confidential values that differ: balances of 0 and 100
\* and rates of 0 and 2 behind the same plaintext mirrors.
SecretPoints == {Zero32, N(100)}
SecretRates == {Zero32, N(2)}

NextSecrets ==
    \/ Tick
    \/ \E s \in Holders, i \in Inputs(SecretPoints), m \in MirrorValues :
           CreateAccount(s, i, m)
    \/ \E b \in BrandIds : AddSupportedBrand(owner, b)
    \/ \E i \in Inputs(SecretRates), m \in RateMirrors :
           SetExchangeRate(owner, PairKey("A", "B"), i, m)
    \/ \E s \in Holders, a \in Amounts : ConvertPoints(s, "A", "B", a)
    \/ \E s \in Holders : DeactivateAccount(s)
    \/ \E s \in Holders, m \in MirrorValues : UpdatePublicPoints(s, m)
    \/ \E n \in Users : TransferOwnership(owner, n)

SpecSecrets == Init /\ [][NextSecrets]_vars

\* ------------------------------------------------------------- claims
\* The step is a transaction `op` (a step that changes only the clock is not).
Called(op) ==
    /\ last'.op = op
    /\ << accounts, exchangeRates, supportedBrands, owner, brandList, records, last >>'
           # << accounts, exchangeRates, supportedBrands, owner, brandList, records, last >>

\* An account has been created for u: its balance slot holds a ciphertext.
HasAccount(u) == accounts[u].encryptedPoints.init

\* C1: once an account has been created for an owner, every later
\* createAccount by that owner fails with "Account already exists" and leaves
\* the existing account (balance, mirror, timestamp, active flag) unmodified.
C1_CreateAtMostOnce ==
    [][\A u \in Users :
          (HasAccount(u) /\ Called("createAccount") /\ last'.sender = u)
              => (last'.err = ErrAccountExists /\ accounts'[u] = accounts[u])]_vars

\* C2: convertPoints(fromBrand, toBrand, amount) fails and leaves the ledger
\* unchanged unless the caller's account is active, both brands are
\* registered, amount > 0 and the rate stored for the pair has a non-zero
\* mirror.
C2_ConvertFailsUnlessPreconditions ==
    [][Called("convertPoints") =>
          LET s == last'.sender
              f == last'.args[1]
              t == last'.args[2]
              a == last'.args[3]
          IN  \/ /\ accounts[s].isActive
                 /\ supportedBrands[f]
                 /\ supportedBrands[t]
                 /\ a # Zero32
                 /\ exchangeRates[PairKey(f, t)].publicRate # Zero32
              \/ /\ last'.err # Ok
                 /\ UNCHANGED << accounts, exchangeRates, supportedBrands, owner,
                                 brandList >>]_vars

\* C2 witness: a conversion was rejected for the missing rate alone, on an
\* active account with both brands registered and a positive amount.
C2_Witness ==
    /\ last.op = "convertPoints"
    /\ last.err = ErrRateNotSet
    /\ accounts[last.sender].isActive
    /\ supportedBrands[last.args[1]] /\ supportedBrands[last.args[2]]
    /\ last.args[3] # Zero32

\* A 32-bit word as a 72-bit word: sums and products of 32-bit words are
\* exact in it.
Wide(x) == x \o << 0, 0, 0, 0, 0 >>
Low32(w) == SubSeq(w, 1, NumLimbs)

\* b + a * r and balance + a as exact naturals (72-bit words).
CreditSide(b, a, r) == WrapAdd(Wide(b), WrapMul(Wide(a), Wide(r)))
DebitSide(balance, a) == WrapAdd(Wide(balance), Wide(a))

\* C3 as stated: after a successful convertPoints(A, B, a) on a balance that
\* decrypts to b, with the confidential rate r, the balance decrypts to
\* exactly b - a + a * r (as integers: balance + a = b + a * r).
C3_ConvertExact ==
    [][(Called("convertPoints") /\ last'.err = Ok) =>
          LET s == last'.sender
              a == last'.args[3]
              b == Decrypt(accounts[s].encryptedPoints)
              r == Decrypt(exchangeRates[PairKey(last'.args[1], last'.args[2])].encryptedRate)
          IN  DebitSide(Decrypt(accounts'[s].encryptedPoints), a) = CreditSide(b, a, r)]_vars

\* C3 as amended: the balance decrypts to (b - a + a * r) mod 2^32, that is
\* balance + a and b + a * r agree modulo 2^32; b = 100, a = 50, r = 2 gives
\* 150.
C3_ConvertWraps ==
    [][(Called("convertPoints") /\ last'.err = Ok) =>
          LET s == last'.sender
              a == last'.args[3]
              b == Decrypt(accounts[s].encryptedPoints)
              r == Decrypt(exchangeRates[PairKey(last'.args[1], last'.args[2])].encryptedRate)
              balance == Decrypt(accounts'[s].encryptedPoints)
          IN  /\ Low32(DebitSide(balance, a)) = Low32(CreditSide(b, a, r))
              /\ (b = N(100) /\ a = N(50) /\ r = N(2)) => balance = N(150)]_vars

\* C3 witness: a conversion of 150 points at the confidential rate 2^31 on a
\* balance of 0 went through; the subtraction and the multiplication wrapped
\* and the balance decrypts to 2^32 - 150.
C3_Witness ==
    /\ last.op = "convertPoints"
    /\ last.err = Ok
    /\ last.args[3] = N(150)
    /\ Decrypt(exchangeRates[PairKey("A", "B")].encryptedRate) = HalfU32
    /\ Decrypt(accounts[last.sender].encryptedPoints) = << 106, 255, 255, 255 >>

\* C4: addSupportedBrand and setExchangeRate called by anyone but the current
\* owner fail with "Not authorized" and leave the brand registry and the rate
\* table unchanged.
C4_OwnerOnly ==
    [][((Called("addSupportedBrand") \/ Called("setExchangeRate"))
            /\ last'.sender # owner)
          => (/\ last'.err = ErrNotAuthorized
              /\ UNCHANGED << supportedBrands, brandList, exchangeRates >>)]_vars

\* C4 witness: a non-owner's setExchangeRate was rejected although the pair
\* string is registered and the input proof validates.
C4_Witness ==
    /\ last.op = "setExchangeRate"
    /\ last.sender # owner
    /\ last.err = ErrNotAuthorized
    /\ supportedBrands[last.args[1]]
    /\ last.args[2].proofOk

\* C5: a rate entry exists for an ordered pair (from, to) only if from and to
\* are each registered brands.
C5_RateOnlyForRegisteredBrands ==
    \A f \in BrandIds, t \in BrandIds :
        exchangeRates[PairKey(f, t)] # NoRate
            => (supportedBrands[f] /\ supportedBrands[t])

\* C6: whenever brands A and B are each registered, the owner's
\* setExchangeRate for the pair (A, B) with a valid attestation and a mirror
\* > 0 succeeds with no further registration.
C6_RateSettableForRegisteredBrands ==
    [][\A f \in BrandIds, t \in BrandIds :
          (/\ Called("setExchangeRate")
           /\ last'.sender = owner
           /\ last'.args[1] = PairKey(f, t)
           /\ supportedBrands[f] /\ supportedBrands[t]
           /\ last'.args[2].proofOk
           /\ last'.args[3] # Zero32)
              => last'.err = Ok]_vars

\* A createAccount or setExchangeRate step whose input proof does not validate.
CalledWithBadProof ==
    \/ Called("createAccount") /\ ~last'.args[1].proofOk
    \/ Called("setExchangeRate") /\ ~last'.args[2].proofOk

\* C7 as stated: a createAccount or setExchangeRate whose input proof does
\* not validate fails with the attestation error and creates or modifies no
\* account and no rate.
C7_BadProofFailsWithAttestationError ==
    [][CalledWithBadProof
          => (/\ last'.err \in {ErrInvalidInput, ErrInvalidRate}
              /\ UNCHANGED << accounts, exchangeRates >>)]_vars

\* C7 as amended: such a call always fails and creates or modifies no account
\* and no rate; the error is the attestation error whenever the checks that
\* precede the proof check pass (createAccount: the caller's mirror is zero;
\* setExchangeRate: the caller is the owner and the pair string is
\* registered), and otherwise the error of the first of those that fails.
C7_BadProofRejected ==
    [][CalledWithBadProof
          => (/\ last'.err # Ok
              /\ UNCHANGED << accounts, exchangeRates >>
              /\ (last'.op = "createAccount" =>
                     last'.err = IF accounts[last'.sender].publicPoints = Zero32
                                 THEN ErrInvalidInput ELSE ErrAccountExists)
              /\ (last'.op = "setExchangeRate" =>
                     last'.err = IF last'.sender # owner THEN ErrNotAuthorized
                                 ELSE IF ~supportedBrands[last'.args[1]]
                                      THEN ErrPairUnsupported
                                      ELSE ErrInvalidRate))]_vars

\* C7 witness: the owner's setExchangeRate for a registered pair string was
\* rejected for its proof.
C7_Witness ==
    /\ last.op = "setExchangeRate"
    /\ ~last.args[2].proofOk
    /\ last.err = ErrInvalidRate

\* Caller c's decryptData submits its proof to verifyDecryption in this step.
VerifyStep(c) == fe[c].pc = "verifyDecryption" /\ fe'[c] # fe[c]

\* Caller c's decryptData, its verifyDecryption transaction processed,
\* returns in this step.
ReturnStep(c) == fe[c].pc \in {"loadData", "catch"} /\ fe'[c] # fe[c]

\* C8: once a record is Verified, every later verifyDecryption attempt for it
\* (decryptData calling the contract) returns the stored cleartext value and
\* does not change the record, whatever the proof: the transaction leaves
\* the record as it is, and the call that sent it, when the transaction did
\* not fail on the proof, returns the value the record stores.
C8_VerifiedAttemptReturnsStored ==
    [][\A c \in Users :
          /\ (VerifyStep(c) /\ records[fe[c].businessId].isVerified)
                 => records' = records
          /\ (ReturnStep(c) /\ fe[c].txErr \in {Ok, ErrAlreadyVerified})
                 => fe'[c].ret = Number(records[fe[c].businessId].decryptedValue)]_vars

\* C9: Verified is terminal: no operation moves a Verified record back or
\* changes its stored cleartext value.
C9_VerifiedIsTerminal ==
    [][\A id \in Users : records[id].isVerified => records'[id] = records[id]]_vars

\* C9 witness: the holder converted after the record of the balance was
\* verified: the record still stores 100 while the balance decrypts to 150.
C9_Witness ==
    /\ last.op = "convertPoints"
    /\ last.err = Ok
    /\ records[last.sender] = [isVerified |-> TRUE, decryptedValue |-> N(100)]
    /\ Decrypt(accounts[last.sender].encryptedPoints) = N(150)

\* C10: when the submitted proof does not validate for an Unverified record,
\* verification fails with "Invalid decryption proof", the record stays
\* Unverified with no cleartext stored, decryptData returns null and clears
\* its in-progress flag, and a new call can start. The transaction is one
\* step and the return of the call that sent it a later one.
C10_RejectedProofLeavesUnverified ==
    [][\A c \in Users :
          LET id == fe[c].businessId IN
          /\ (/\ VerifyStep(c)
              /\ ~records[id].isVerified
              /\ (~fe[c].proof.valid \/ fe[c].proof.handle # accounts[id].encryptedPoints))
                 => (/\ last'.op = "verifyDecryption"
                     /\ last'.err = ErrInvalidDecryptionProof
                     /\ records' = records
                     /\ records'[id] = NoRecord
                     /\ fe'[c].txErr = ErrInvalidDecryptionProof
                     /\ fe'[c].pc = "catch")
          /\ (ReturnStep(c) /\ fe[c].txErr = ErrInvalidDecryptionProof)
                 => (/\ records' = records
                     /\ last' = last
                     /\ fe'[c].ret = Null
                     /\ fe'[c].pc = "idle"
                     /\ ~fe'[c].isDecrypting)]_vars

\* C10 witness: a caller whose proof was rejected has returned null and
\* started a new decryption of the same, still Unverified, record.
C10_Witness ==
    /\ last.op = "verifyDecryption"
    /\ last.err = ErrInvalidDecryptionProof
    /\ ~last.args[2].valid
    /\ fe[last.sender].pc = "getBusinessData"
    /\ fe[last.sender].ret = Null
    /\ fe[last.sender].businessId = last.args[1]
    /\ records[last.args[1]] = NoRecord

\* C11: if the record is already Verified when decryptData reads it,
\* decryptData returns the stored cleartext value at once: it requests no
\* external decryption (the call ends at the read of the record, holding no
\* handle and no proof) and submits no verifyDecryption transaction.
C11_FastPath ==
    [][\A c \in Users :
          /\ (DecryptReadRecord(c, TRUE, FALSE) /\ records[fe[c].businessId].isVerified)
                 => fe'[c] = Idle(Number(records[fe[c].businessId].decryptedValue))
          /\ (fe[c].pc = "getBusinessData" /\ fe'[c] # fe[c])
                 => (/\ last' = last
                     /\ records' = records
                     /\ fe'[c].pc # "idle"
                            => ~records[fe[c].businessId].isVerified)]_vars

\* C11 witness: a caller's verifyDecryption has stored 100 and that caller
\* has not returned yet; the other caller, whose call was in flight, has read
\* the verified record and returned the stored 100.
C11_Witness ==
    /\ last.op = "verifyDecryption"
    /\ last.err = Ok
    /\ records[last.args[1]] = [isVerified |-> TRUE, decryptedValue |-> N(100)]
    /\ fe[last.sender].pc = "loadData"
    /\ fe[last.sender].isDecrypting
    /\ \E c \in Users \ {last.sender} : fe[c] = Idle(Number(N(100)))

\* C12: after an owner's deactivateAccount succeeds (the account exists and
\* is inactive), no operation makes the account active again or changes its
\* confidential balance, so no later convertPoints by that owner succeeds.
C12_DeactivationIsPermanent ==
    [][\A u \in Users :
          (HasAccount(u) /\ ~accounts[u].isActive)
              => (/\ ~accounts'[u].isActive
                  /\ accounts'[u].encryptedPoints = accounts[u].encryptedPoints
                  /\ ~(Called("convertPoints") /\ last'.sender = u /\ last'.err = Ok))]_vars

\* The registry is well formed: brandList has no repeated element and holds
\* exactly the identifiers whose supportedBrands flag is true.
RegistryWellFormed(list, flags) ==
    /\ \A i \in 1..Len(list), j \in 1..Len(list) : list[i] = list[j] => i = j
    /\ {list[i] : i \in 1..Len(list)} = {s \in DOMAIN flags : flags[s]}

\* C13: the brand registry is append-only and duplicate-free. The owner's
\* addSupportedBrand fails with "Brand already supported" for a brand already
\* present and otherwise appends it at the end of brandList; no other step
\* touches the registry; in every state brandList has no repeated element and
\* holds exactly the identifiers flagged in supportedBrands.
C13_RegistryAppendOnly ==
    [][/\ RegistryWellFormed(brandList, supportedBrands)
       /\ RegistryWellFormed(brandList', supportedBrands')
       /\ (Called("addSupportedBrand") /\ last'.sender = owner
               /\ supportedBrands[last'.args[1]])
              => last'.err = ErrBrandExists
       /\ IF Called("addSupportedBrand") /\ last'.err = Ok
          THEN /\ ~supportedBrands[last'.args[1]]
               /\ brandList' = Append(brandList, last'.args[1])
               /\ supportedBrands' = [supportedBrands EXCEPT ![last'.args[1]] = TRUE]
          ELSE UNCHANGED << brandList, supportedBrands >>]_vars

\* C13 witness: with the three brands registered, the owner's attempt to
\* register one of them again was rejected.
C13_Witness ==
    /\ last.op = "addSupportedBrand"
    /\ last.sender = owner
    /\ last.err = ErrBrandExists
    /\ Len(brandList) = 3

\* The step is a call of one of the owner-gated functions.
CalledOwnerGated ==
    \/ Called("addSupportedBrand")
    \/ Called("setExchangeRate")
    \/ Called("transferOwnership")

\* C14: transferOwnership succeeds only when called by the current owner with
\* a non-null new owner (and then it does succeed); on success the new owner
\* becomes the owner, and no other step changes the owner; the owner check of
\* addSupportedBrand, setExchangeRate and transferOwnership passes for the
\* current owner only, so that a previous owner is rejected with
\* "Not authorized".
C14_TransferOwnership ==
    [][/\ Called("transferOwnership") =>
              (last'.err = Ok <=>
                   (last'.sender = owner /\ last'.args[1] # ZeroAddress))
       /\ IF Called("transferOwnership") /\ last'.err = Ok
          THEN owner' = last'.args[1]
          ELSE owner' = owner
       /\ CalledOwnerGated =>
              (last'.err = ErrNotAuthorized <=> last'.sender # owner)]_vars

\* C14 witness: the ownership went from one identity to another: the caller
\* of the successful transferOwnership is no longer the owner.
C14_Witness ==
    /\ last.op = "transferOwnership"
    /\ last.err = Ok
    /\ owner = last.args[1]
    /\ last.sender # owner

\* The functions that write the caller's account.
AccountOps == {"createAccount", "convertPoints", "deactivateAccount", "updatePublicPoints"}

\* C15: an account's fields are changed only by transactions of its own
\* owner: a step that changes the account of y is a successful createAccount,
\* convertPoints, deactivateAccount or updatePublicPoints sent by y; every
\* transaction of a caller x leaves the account of every y # x unchanged.
C15_AccountFrame ==
    [][\A y \in Users :
          accounts'[y] # accounts[y]
              => (/\ last'.sender = y
                  /\ last'.op \in AccountOps
                  /\ last'.err = Ok)]_vars

\* C15 witness: both users hold an active account; the last transaction is a
\* successful convertPoints of one of them, and the other's balance is still
\* the 100 it was created with.
C15_Witness ==
    /\ last.op = "convertPoints"
    /\ last.err = Ok
    /\ \A u \in Users : HasAccount(u) /\ accounts[u].isActive
    /\ Decrypt(accounts[last.sender].encryptedPoints) = N(150)
    /\ \E y \in Users \ {last.sender} :
           /\ Decrypt(accounts[y].encryptedPoints) = N(100)
           /\ accounts[y].encryptedPoints.public

\* C16: a successful setExchangeRate for the ordered pair (f, t) overwrites
\* only that pair's entry: for every other ordered pair (c, d) # (f, t), the
\* reverse pair and pairs of identifiers that contain "-" included, what
\* getExchangeRate returns for (c, d) and the rate convertPoints(c, d, .)
\* reads are unchanged.
C16_RateFrame ==
    [][\A f \in SeparatorBrandIds, t \in SeparatorBrandIds,
          c \in SeparatorBrandIds, d \in SeparatorBrandIds :
          (/\ Called("setExchangeRate")
           /\ last'.err = Ok
           /\ last'.args[1] = PairKey(f, t)
           /\ << c, d >> # << f, t >>
           /\ PairKey(c, d) \in DOMAIN exchangeRates)
              => (/\ getExchangeRate(PairKey(c, d))' = getExchangeRate(PairKey(c, d))
                  /\ exchangeRates'[PairKey(c, d)].encryptedRate
                         = exchangeRates[PairKey(c, d)].encryptedRate)]_vars

\* What an observer of the ledger sees: every handle with its plaintext
\* blanked, and every confidential input of a transaction likewise.
Redact(h) == [h EXCEPT !.val = Zero32]
PublicAccounts == [u \in Users |-> [accounts[u] EXCEPT !.encryptedPoints = Redact(@)]]
PublicRates ==
    [k \in DOMAIN exchangeRates |-> [exchangeRates[k] EXCEPT !.encryptedRate = Redact(@)]]
PublicState == << PublicAccounts, PublicRates, supportedBrands, owner, brandList >>
PublicTx(tx) ==
    IF tx.op = "createAccount" THEN [tx EXCEPT !.args[1] = Redact(@), !.err = Ok]
    ELSE IF tx.op = "setExchangeRate" THEN [tx EXCEPT !.args[2] = Redact(@), !.err = Ok]
    ELSE [tx EXCEPT !.err = Ok]

\* The outcome of transaction tx as a function of the public state and the
\* public part of its inputs alone.
PublicOutcome(tx) ==
    LET s == tx.sender
        a == tx.args
    IN  CASE tx.op = "createAccount" ->
                 IF PublicAccounts[s].publicPoints # Zero32 THEN ErrAccountExists
                 ELSE IF ~a[1].proofOk THEN ErrInvalidInput ELSE Ok
          [] tx.op = "addSupportedBrand" ->
                 IF s # owner THEN ErrNotAuthorized
                 ELSE IF supportedBrands[a[1]] THEN ErrBrandExists ELSE Ok
          [] tx.op = "setExchangeRate" ->
                 IF s # owner THEN ErrNotAuthorized
                 ELSE IF ~supportedBrands[a[1]] THEN ErrPairUnsupported
                 ELSE IF ~a[2].proofOk THEN ErrInvalidRate ELSE Ok
          [] tx.op = "convertPoints" ->
                 IF ~PublicAccounts[s].isActive THEN ErrAccountInactive
                 ELSE IF ~(supportedBrands[a[1]] /\ supportedBrands[a[2]])
                      THEN ErrUnsupportedBrand
                 ELSE IF a[3] = Zero32 THEN ErrInvalidAmount
                 ELSE IF PublicRates[PairKey(a[1], a[2])].publicRate = Zero32
                      THEN ErrRateNotSet
                 ELSE Ok
          [] tx.op \in {"deactivateAccount", "updatePublicPoints"} ->
                 IF ~PublicAccounts[s].isActive THEN ErrAccountNotActive ELSE Ok
          [] tx.op = "transferOwnership" ->
                 IF s # owner THEN ErrNotAuthorized
                 ELSE IF a[1] = ZeroAddress THEN ErrInvalidAddress ELSE Ok

\* A verified input as the observer sees it, and the result of an operation
\* on handles.
PublicInput == [init |-> TRUE, val |-> Zero32, allowedThis |-> TRUE, public |-> TRUE]
PublicResult == [init |-> TRUE, val |-> Zero32, allowedThis |-> FALSE, public |-> FALSE]

\* The public state after the successful transaction tx, as a function of the
\* public state, the time and the public part of its inputs alone.
PublicEffect(tx) ==
    LET s == tx.sender
        a == tx.args
    IN  CASE tx.op = "createAccount" ->
                 << [PublicAccounts EXCEPT ![s] =
                        [encryptedPoints |-> PublicInput, publicPoints |-> a[2],
                         lastUpdated |-> now, isActive |-> TRUE]],
                    PublicRates, supportedBrands, owner, brandList >>
          [] tx.op = "addSupportedBrand" ->
                 << PublicAccounts, PublicRates,
                    [supportedBrands EXCEPT ![a[1]] = TRUE], owner,
                    Append(brandList, a[1]) >>
          [] tx.op = "setExchangeRate" ->
                 << PublicAccounts,
                    [PublicRates EXCEPT ![a[1]] =
                        [encryptedRate |-> PublicInput, publicRate |-> a[3],
                         lastUpdated |-> now]],
                    supportedBrands, owner, brandList >>
          [] tx.op = "convertPoints" ->
                 << [PublicAccounts EXCEPT ![s].encryptedPoints = PublicResult,
                                           ![s].lastUpdated = now],
                    PublicRates, supportedBrands, owner, brandList >>
          [] tx.op = "deactivateAccount" ->
                 << [PublicAccounts EXCEPT ![s].isActive = FALSE],
                    PublicRates, supportedBrands, owner, brandList >>
          [] tx.op = "updatePublicPoints" ->
                 << [PublicAccounts EXCEPT ![s].publicPoints = a[1],
                                           ![s].lastUpdated = now],
                    PublicRates, supportedBrands, owner, brandList >>
          [] tx.op = "transferOwnership" ->
                 << PublicAccounts, PublicRates, supportedBrands, a[1], brandList >>

\* The step is a transaction of the ledger.
CalledLedger ==
    /\ last'.op # "verifyDecryption"
    /\ << accounts, exchangeRates, supportedBrands, owner, brandList, last >>'
           # << accounts, exchangeRates, supportedBrands, owner, brandList, last >>

\* C17: the ledger leaks no confidential plaintext. The outcome of every
\* transaction, the public state it leaves (mirrors, active flags,
\* timestamps, brand list, owner, which handles exist) and the event it emits
\* are determined by the public state before it and the public part of its
\* inputs: two runs of the same operations that differ only in confidential
\* balance and rate values agree on all of them, step by step.
C17_NoPlaintextLeak ==
    [][IF CalledLedger
       THEN /\ last'.err = PublicOutcome(PublicTx(last'))
            /\ PublicState' = IF last'.err = Ok THEN PublicEffect(PublicTx(last'))
                              ELSE PublicState
            /\ Event(last') = Event([PublicTx(last') EXCEPT !.err = last'.err])
       ELSE PublicState' = PublicState]_vars

\* C17 witness: a conversion of 50 points went through on a balance that
\* decrypts to 0 at a confidential rate of 0, behind non-zero mirrors: the
\* balance wrapped to 2^32 - 50 and nothing public tells.
C17_Witness ==
    /\ last.op = "convertPoints"
    /\ last.err = Ok
    /\ last.args[3] = N(50)
    /\ accounts[last.sender].publicPoints = N(100)
    /\ exchangeRates[PairKey("A", "B")].publicRate = N(2)
    /\ Decrypt(exchangeRates[PairKey("A", "B")].encryptedRate) = Zero32
    /\ Decrypt(accounts[last.sender].encryptedPoints) = << 206, 255, 255, 255 >>

\* C18: a convertPoints performed after the balance handle was read for
\* decryption does not alter the cleartext the record ends up storing:
\* whenever a caller's verifyDecryption makes the record Verified, the value
\* stored is the cleartext of the handle that caller read (the balance at the
\* time of the read), whatever conversions happened since; and a caller's
\* verifyDecryption on a record already Verified leaves the stored value.
C18_ConvertDoesNotAlterDecrypted ==
    [][\A c \in Users :
          LET id == fe[c].businessId IN
          VerifyStep(c) =>
              IF records[id].isVerified
              THEN records'[id] = records[id]
              ELSE records'[id].isVerified =>
                       records'[id].decryptedValue = Decrypt(fe[c].encryptedValueHandle)]_vars

\* C18 witness: a caller read the handle of the balance 100 and obtained its
\* decryption, the holder converted (the balance decrypts to 150), and the
\* caller's verifyDecryption came last: the record stores 100.
C18_Witness ==
    /\ last.op = "verifyDecryption"
    /\ last.args[2].valid
    /\ Decrypt(last.args[2].handle) = N(100)
    /\ Decrypt(accounts[last.args[1]].encryptedPoints) = N(150)
    /\ records[last.args[1]] = [isVerified |-> TRUE, decryptedValue |-> N(100)]

\* C19: when several convertPoints preconditions fail at once, the error is
\* that of the first failing check in the order: account active ("Account
\* inactive"), then both brands registered ("Unsupported brand"), then
\* amount > 0 ("Invalid amount"), then rate configured ("Exchange rate not
\* set").
C19_ConvertErrorOrder ==
    [][Called("convertPoints") =>
          LET active == accounts[last'.sender].isActive
              brands == supportedBrands[last'.args[1]] /\ supportedBrands[last'.args[2]]
              positive == last'.args[3] # Zero32
              rated == exchangeRates[PairKey(last'.args[1], last'.args[2])].publicRate # Zero32
          IN  /\ ~active => last'.err = ErrAccountInactive
              /\ (active /\ ~brands) => last'.err = ErrUnsupportedBrand
              /\ (active /\ brands /\ ~positive) => last'.err = ErrInvalidAmount
              /\ (active /\ brands /\ positive /\ ~rated) => last'.err = ErrRateNotSet
              /\ (active /\ brands /\ positive /\ rated) => last'.err = Ok]_vars

\* C19 witness: a conversion of amount 0 between unregistered brands with no
\* rate set, on an active account: three checks fail, the brand check is
\* reported.
C19_Witness ==
    /\ last.op = "convertPoints"
    /\ last.err = ErrUnsupportedBrand
    /\ accounts[last.sender].isActive
    /\ ~supportedBrands[last.args[1]]
    /\ last.args[3] = Zero32
    /\ exchangeRates[PairKey(last.args[1], last.args[2])].publicRate = Zero32

\* C20: a successful convertPoints changes only the caller's confidential
\* balance and last-updated timestamp: its plaintext mirror and active flag,
\* every other account, every rate entry, the brand registry and the owner
\* are unchanged, and the new balance is (balance - amount) + amount * rate
\* on the confidential values, whatever the plaintext mirrors are.
C20_ConvertFrame ==
    [][(Called("convertPoints") /\ last'.err = Ok) =>
          LET s == last'.sender
              a == last'.args[3]
              b == Decrypt(accounts[s].encryptedPoints)
              r == Decrypt(exchangeRates[PairKey(last'.args[1], last'.args[2])].encryptedRate)
          IN  /\ accounts' = [accounts EXCEPT
                     ![s].encryptedPoints = accounts'[s].encryptedPoints,
                     ![s].lastUpdated = now]
              /\ Decrypt(accounts'[s].encryptedPoints) = WrapAdd(WrapSub(b, a), WrapMul(a, r))
              /\ UNCHANGED << exchangeRates, supportedBrands, brandList, owner >>]_vars

\* C20 witness: a conversion went through on an account whose plaintext
\* mirror is 0 while its balance was 100: the balance decrypts to 150, the
\* mirror is still 0 and the account is still active.
C20_Witness ==
    /\ last.op = "convertPoints"
    /\ last.err = Ok
    /\ accounts[last.sender].publicPoints = Zero32
    /\ accounts[last.sender].isActive
    /\ Decrypt(accounts[last.sender].encryptedPoints) = N(150)

\* C21: deactivateAccount succeeds exactly when the caller's account is
\* active, and then only flips isActive to false: the confidential balance,
\* the plaintext mirror and the timestamp stay as they were; on an inactive
\* or never-created account it fails with "Account not active" and changes
\* nothing, so a second deactivateAccount fails.
C21_DeactivateFrame ==
    [][Called("deactivateAccount") =>
          LET s == last'.sender IN
          /\ last'.err = IF accounts[s].isActive THEN Ok ELSE ErrAccountNotActive
          /\ accounts' = IF accounts[s].isActive
                         THEN [accounts EXCEPT ![s].isActive = FALSE]
                         ELSE accounts
          /\ ~accounts'[s].isActive
          /\ UNCHANGED << exchangeRates, supportedBrands, brandList, owner, records >>]_vars

\* C21 witness: a second deactivateAccount on a created, already deactivated
\* account was rejected; the balance is still stored.
C21_Witness ==
    /\ last.op = "deactivateAccount"
    /\ last.err = ErrAccountNotActive
    /\ HasAccount(last.sender)
    /\ ~accounts[last.sender].isActive
    /\ Decrypt(accounts[last.sender].encryptedPoints) = N(100)

\* What convertPoints reads of the caller's account: the active flag (line
\* 80) and the confidential balance (line 91).
ConversionView(account) == << account.isActive, account.encryptedPoints >>

\* The caller's account after a further call of its owner, as the call's
\* function leaves it: deactivateAccount (lines 116-117), createAccount with a
\* valid ciphertext of 100 and a mirror of 100 (lines 41-49), or no call.
OwnCalls == {"none", "deactivateAccount", "createAccount"}
AccountAfter(account, call) ==
    IF call = "deactivateAccount"
    THEN IF account.isActive THEN [account EXCEPT !.isActive = FALSE] ELSE account
    ELSE IF call = "createAccount"
         THEN IF account.publicPoints # Zero32 THEN account
              ELSE CreatedAccount(ExternalInput(N(100), TRUE), N(100))
    ELSE account

\* C22: updatePublicPoints fails with "Account not active" when the caller's
\* account is inactive or was never created, and otherwise changes only the
\* caller's plaintext mirror and timestamp: the confidential balance and the
\* active flag are unchanged. convertPoints never reads the account's mirror.
\* And the result of any later convertPoints is the same as if the mirror had
\* not been updated: after whatever the owner calls next, a conversion finds
\* the same active flag and the same balance from the account as updated and
\* from the account as it was.
C22_UpdateMirrorFrame ==
    [][/\ Called("updatePublicPoints") =>
              LET s == last'.sender IN
              /\ last'.err = IF accounts[s].isActive THEN Ok ELSE ErrAccountNotActive
              /\ accounts' = IF accounts[s].isActive
                             THEN [accounts EXCEPT ![s].publicPoints = last'.args[1],
                                                   ![s].lastUpdated = now]
                             ELSE accounts
              /\ UNCHANGED << exchangeRates, supportedBrands, brandList, owner, records >>
       /\ Called("convertPoints") =>
              LET s == last'.sender
                  k == PairKey(last'.args[1], last'.args[2])
                  a == last'.args[3]
                  b == Decrypt(accounts[s].encryptedPoints)
                  r == Decrypt(exchangeRates[k].encryptedRate)
              IN  /\ last'.err = Ok <=>
                         /\ accounts[s].isActive
                         /\ supportedBrands[last'.args[1]] /\ supportedBrands[last'.args[2]]
                         /\ a # Zero32
                         /\ exchangeRates[k].publicRate # Zero32
                  /\ Decrypt(accounts'[s].encryptedPoints) =
                         IF last'.err = Ok THEN WrapAdd(WrapSub(b, a), WrapMul(a, r)) ELSE b
                  /\ accounts'[s].publicPoints = accounts[s].publicPoints
       /\ (Called("updatePublicPoints") /\ last'.err = Ok) =>
              LET s == last'.sender IN
              \A c1 \in OwnCalls, c2 \in OwnCalls :
                  ConversionView(AccountAfter(AccountAfter(accounts'[s], c1), c2))
                      = ConversionView(AccountAfter(AccountAfter(accounts[s], c1), c2))]_vars

\* The mirror of the rate entry at key k is the zero sentinel.
RateUnset(k) == exchangeRates[k].publicRate = Zero32

\* C23: the plaintext mirror of zero is the "not configured" sentinel of a
\* rate. The entry of a pair holds what the latest successful setExchangeRate
\* for it wrote (no other step writes it, and a mirror of 0 is accepted);
\* getExchangeRate for the pair succeeds iff that mirror is > 0, and the rate
\* check of convertPoints passes iff it is > 0: a pair never set, or last set
\* with mirror 0, fails with "Rate not found" / "Exchange rate not set" even
\* if a confidential rate is stored.
C23_ZeroMirrorSentinel ==
    [][/\ \A k \in DOMAIN exchangeRates :
              /\ getExchangeRate(k).err = IF RateUnset(k) THEN ErrRateNotFound ELSE Ok
              /\ (getExchangeRate(k).err = Ok)' <=> ~RateUnset(k)'
              /\ IF Called("setExchangeRate") /\ last'.err = Ok /\ last'.args[1] = k
                 THEN /\ exchangeRates'[k].publicRate = last'.args[3]
                      /\ Decrypt(exchangeRates'[k].encryptedRate) = last'.args[2].val
                 ELSE exchangeRates'[k] = exchangeRates[k]
       /\ Called("convertPoints") =>
              LET k == PairKey(last'.args[1], last'.args[2]) IN
              (/\ accounts[last'.sender].isActive
               /\ supportedBrands[last'.args[1]] /\ supportedBrands[last'.args[2]]
               /\ last'.args[3] # Zero32)
                  => last'.err = IF RateUnset(k) THEN ErrRateNotSet ELSE Ok]_vars

\* C23 witness: the rate of the pair was last set with a confidential rate of
\* 2 and a mirror of 0: the ciphertext is stored, getExchangeRate fails and a
\* conversion that meets every other precondition was refused for the rate.
C23_Witness ==
    /\ last.op = "convertPoints"
    /\ last.err = ErrRateNotSet
    /\ FHE_isInitialized(exchangeRates[PairKey("A", "B")].encryptedRate)
    /\ Decrypt(exchangeRates[PairKey("A", "B")].encryptedRate) = N(2)
    /\ RateUnset(PairKey("A", "B"))
    /\ getExchangeRate(PairKey("A", "B")).err = ErrRateNotFound

\* The step is a transaction `op`: it changes the ledger or the outcome seen,
\* or it appends to the log.
Transacted(op) == last'.op = op /\ (Called(op) \/ eventLog' # eventLog)

\* The step appends exactly this event to the log, and the step appends
\* nothing.
Appends(event) == eventLog' = [eventLog EXCEPT !.events = Append(@, event)]
AppendsNone == eventLog' = eventLog

\* The events of the contract's operations: the log only grows, by one event
\* at a time at its end; a successful createAccount appends account-created
\* with the owner and the mirror, a successful setExchangeRate rate-updated
\* with the pair and the mirror, a successful convertPoints
\* conversion-performed with the owner, the brands and the amount; a failed
\* operation, every other operation and every other step append nothing.
LedgerEvents ==
    LET tx == last' IN
    /\ AppendsNone \/ \E e \in {eventLog'.events[Len(eventLog'.events)]} : Appends(e)
    /\ tx.err # Ok => AppendsNone
    /\ (Transacted("createAccount") /\ tx.err = Ok) =>
           /\ Appends(<< "AccountCreated", tx.sender, accounts'[tx.sender].publicPoints >>)
           /\ tx.args[2] = accounts'[tx.sender].publicPoints
    /\ (Transacted("setExchangeRate") /\ tx.err = Ok) =>
           Appends(<< "ExchangeRateUpdated", tx.args[1],
                      exchangeRates'[tx.args[1]].publicRate >>)
    /\ (Transacted("convertPoints") /\ tx.err = Ok) =>
           Appends(<< "PointsConverted", tx.sender, tx.args[1], tx.args[2], tx.args[3] >>)
    /\ (Called("addSupportedBrand") \/ Called("deactivateAccount")
            \/ Called("updatePublicPoints") \/ Called("transferOwnership"))
           => AppendsNone
    /\ ~(\E op \in {"createAccount", "setExchangeRate", "convertPoints",
                     "verifyDecryption"} : Transacted(op))
           => AppendsNone

C25_NoSufficiencyCheck ==
    [][Called("convertPoints") =>
          LET s == last'.sender
              k == PairKey(last'.args[1], last'.args[2])
              a == last'.args[3]
              b == Decrypt(accounts[s].encryptedPoints)
              r == Decrypt(exchangeRates[k].encryptedRate)
          IN  IF /\ accounts[s].isActive
                 /\ supportedBrands[last'.args[1]] /\ supportedBrands[last'.args[2]]
                 /\ a # Zero32
                 /\ exchangeRates[k].publicRate # Zero32
              THEN /\ last'.err = Ok
                   /\ Decrypt(accounts'[s].encryptedPoints)
                          = WrapAdd(WrapSub(b, a), WrapMul(a, r))
                   /\ Decrypt(accounts'[s].encryptedPoints)
                          = Low32(WrapSub(CreditSide(b, a, r), Wide(a)))
              ELSE last'.err # Ok /\ accounts' = accounts]_vars

\* C25 witness: 150 points were converted at the rate 2 on a balance of 100:
\* the subtraction wrapped below zero and the balance decrypts to 250.
C25_Witness ==
    /\ last.op = "convertPoints"
    /\ last.err = Ok
    /\ last.args[3] = N(150)
    /\ Decrypt(exchangeRates[PairKey("A", "B")].encryptedRate) = N(2)
    /\ Decrypt(accounts[last.sender].encryptedPoints) = N(250)

\* C26: in every reachable state the balance handle of each created account
\* and the rate handle of each rate entry that holds one has been granted to
\* the contract (allowThis) and marked publicly decryptable, the balance
\* handle written by convertPoints included.
C26_StoredHandlesGranted ==
    /\ \A u \in Users :
           HasAccount(u) =>
               /\ accounts[u].encryptedPoints.allowedThis
               /\ accounts[u].encryptedPoints.public
    /\ \A k \in DOMAIN exchangeRates :
           FHE_isInitialized(exchangeRates[k].encryptedRate) =>
               /\ exchangeRates[k].encryptedRate.allowedThis
               /\ exchangeRates[k].encryptedRate.public

\* C27: getAccountBalance(user) succeeds iff the user's account is active,
\* and then returns the stored balance handle and mirror; it fails with
\* "Account not found" for a never-created account and for a created, then
\* deactivated account whose balance is still stored.
C27_BalanceOfActiveOnly ==
    \A u \in Users :
        /\ getAccountBalance(u).err = Ok <=> accounts[u].isActive
        /\ accounts[u].isActive =>
               /\ getAccountBalance(u).encryptedPoints = accounts[u].encryptedPoints
               /\ getAccountBalance(u).publicPoints = accounts[u].publicPoints
        /\ ~accounts[u].isActive =>
               getAccountBalance(u) =
                   [err |-> ErrAccountNotFound, encryptedPoints |-> NoHandle,
                    publicPoints |-> Zero32]

\* C27 witness: an account was created, converted on and deactivated: its
\* balance of 150 is still stored and getAccountBalance fails for it, as for
\* the user who never created one.
C27_Witness ==
    /\ last.op = "deactivateAccount"
    /\ last.err = Ok
    /\ Decrypt(accounts[last.sender].encryptedPoints) = N(150)
    /\ getAccountBalance(last.sender).err = ErrAccountNotFound
    /\ \E u \in Users : ~HasAccount(u) /\ getAccountBalance(u).err = ErrAccountNotFound

\* C28: in every reachable state there is one owner and it is a non-null
\* identity: the deployer as long as no transaction followed the
\* construction, and from then on changed by a successful transferOwnership
\* only, to its argument; no other operation changes it.
C28_OwnerInvariant ==
    [][/\ owner \in Users /\ owner # ZeroAddress
       /\ owner' \in Users /\ owner' # ZeroAddress
       /\ last.op = "constructor" => owner = last.sender
       /\ IF Called("transferOwnership") /\ last'.err = Ok
          THEN owner' = last'.args[1]
          ELSE owner' = owner]_vars

\* C28 witness: the owner's transferOwnership to the null address was
\* rejected: the owner is who it was.
C28_Witness ==
    /\ last.op = "transferOwnership"
    /\ last.args[1] = ZeroAddress
    /\ last.sender = owner
    /\ last.err = ErrInvalidAddress
====
